---- MODULE Spec2Model ----
(***************************************************************************)
(* Model of SalaryInHand (src/app.py): the Indian number formatter, the    *)
(* progressive slab tax calculator and the salary pipeline run on submit.  *)
(*                                                                         *)
(* Money is counted in paise (1/100 rupee) as integers; a rate such as     *)
(* 0.14 is the fraction 14/100.  The inputs are chosen so that every       *)
(* product in the pipeline is a whole number of paise (ExactArithmetic),   *)
(* so the model computes the decimal value of each expression of the       *)
(* source; the binary rounding of Python floats (about 1e-10 rupee at      *)
(* these magnitudes) is not represented.                                   *)
(*                                                                         *)
(* Text is a sequence of one-character strings.                            *)
(***************************************************************************)
EXTENDS Integers, Sequences, FiniteSets

VARIABLES
    inp_fixed_salary,       \* form field "Fixed Gross Salary", paise
    inp_nps,                \* form field "Employer NPS Contribution", percent
    submit_button_clicked,  \* value returned by st.form_submit_button
    calc,                   \* values computed by the submit block, or << >>
    shown,                  \* formatted yearly amounts rendered, or << >>
    tax_args,               \* amounts handed to calculate_tax, paise
    tax_vals,               \* results returned by calculate_tax so far
    amount,                 \* argument of indian_number_format
    fmt_result              \* text returned by indian_number_format, or << >>

vars == <<inp_fixed_salary, inp_nps, submit_button_clicked, calc, shown,
          tax_args, tax_vals, amount, fmt_result>>

pipe_vars == <<inp_fixed_salary, inp_nps, submit_button_clicked, calc, shown>>
tax_vars == <<tax_args, tax_vals>>
fmt_vars == <<amount, fmt_result>>

----------------------------------------------------------------------------
(* Arithmetic helpers                                                      *)

\* n rupees in paise
Rupees(n) == n * 100

\* x * (num/den), split so that no intermediate product leaves 32 bits
MulRate(x, num, den) == (x \div den) * num + ((x % den) * num) \div den

\* the product x * (num/den) is a whole number
IsExact(x, num, den) == ((x % den) * num) % den = 0

Abs(x) == IF x < 0 THEN -x ELSE x

Max(x, y) == IF x >= y THEN x ELSE y

Min(x, y) == IF x <= y THEN x ELSE y

----------------------------------------------------------------------------
(* calculate_tax                                                           *)

\* (income limit, tax rate) from the highest bracket to the lowest
brackets == <<
    [limit |-> Rupees(2400000), rate |-> 30],
    [limit |-> Rupees(2000000), rate |-> 25],
    [limit |-> Rupees(1600000), rate |-> 20],
    [limit |-> Rupees(1200000), rate |-> 15],
    [limit |-> Rupees(800000),  rate |-> 10],
    [limit |-> Rupees(400000),  rate |-> 5] >>

\* mutation: the remaining amount is not clamped to the limit
BracketStepNoClamp(st, b) ==
    IF st.taxable_amount > b.limit
    THEN [taxable_amount |-> st.taxable_amount,
          tax_value |-> st.tax_value
                        + MulRate(st.taxable_amount - b.limit, b.rate, 100)]
    ELSE st

\* mutation: the surplus test is missing
BracketStepNoTest(st, b) ==
    [taxable_amount |-> b.limit,
     tax_value |-> st.tax_value
                   + MulRate(st.taxable_amount - b.limit, b.rate, 100)]

\* mutation: the bracket's rate is charged on the whole remaining amount
BracketStepWholeAmount(st, b) ==
    IF st.taxable_amount > b.limit
    THEN [taxable_amount |-> b.limit,
          tax_value |-> st.tax_value
                        + MulRate(st.taxable_amount, b.rate, 100)]
    ELSE st

\* one iteration of the loop over the brackets
BracketStep(st, b) ==
    IF st.taxable_amount > b.limit
    THEN [taxable_amount |-> b.limit,
          tax_value |-> st.tax_value
                        + MulRate(st.taxable_amount - b.limit, b.rate, 100)]
    ELSE st

RECURSIVE TaxLoop(_, _)
\* the for loop, entered at bracket i with loop state st
TaxLoop(i, st) ==
    IF i > Len(brackets) THEN st
    ELSE TaxLoop(i + 1, BracketStep(st, brackets[i]))

\* mutation: only the first bracket that applies is charged
calculate_tax_top_only(taxable_amount) ==
    LET hit == {i \in 1..Len(brackets) : taxable_amount > brackets[i].limit}
    IN  IF hit = {} THEN 0
        ELSE LET i == CHOOSE j \in hit : \A k \in hit : j <= k
             IN  MulRate(taxable_amount - brackets[i].limit,
                         brackets[i].rate, 100)

calculate_tax(taxable_amount) ==
    TaxLoop(1, [taxable_amount |-> taxable_amount, tax_value |-> 0]).tax_value

----------------------------------------------------------------------------
(* indian_number_format                                                    *)
(*                                                                         *)
(* An amount is [neg, whole, num, den]: the number                         *)
(* (-1)^neg * (whole + num/den) with 0 <= num < den.  With den a power of  *)
(* two the amount is exactly a Python float, so round(amount, 2) is the    *)
(* round-half-to-even of this very value.                                  *)

Digits == <<"0", "1", "2", "3", "4", "5", "6", "7", "8", "9">>

DigitSet == {Digits[i] : i \in 1..10}

\* s[-k:] of Python
TakeLast(s, k) == SubSeq(s, Max(1, Len(s) - k + 1), Len(s))

\* s[:-k] of Python
DropLast(s, k) == SubSeq(s, 1, Max(0, Len(s) - k))

RECURSIVE NatToStr(_)
\* the decimal digits of a natural number, as "%d" prints it
NatToStr(n) ==
    IF n < 10 THEN <<Digits[n + 1]>>
    ELSE NatToStr(n \div 10) \o <<Digits[(n % 10) + 1]>>

\* amount < 0 (minus zero is not below zero)
is_negative(a) == a.neg /\ (a.whole > 0 \/ a.num > 0)

\* abs(round(amount, 2)): rupees and hundredths, ties to the even hundredth
RoundAbs(a) ==
    LET q == (a.num * 100) \div a.den
        r == (a.num * 100) % a.den
        up == 2 * r > a.den \/ (2 * r = a.den /\ q % 2 = 1)
        c == IF up THEN q + 1 ELSE q
    IN  IF c = 100 THEN [whole |-> a.whole + 1, cents |-> 0]
        ELSE [whole |-> a.whole, cents |-> c]

RECURSIVE GroupLoopThrees(_, _)
\* mutation: every group takes three digits
GroupLoopThrees(integer_part, formatted) ==
    IF Len(integer_part) > 0
    THEN GroupLoopThrees(DropLast(integer_part, 3),
                         TakeLast(integer_part, 3) \o <<",">> \o formatted)
    ELSE formatted

RECURSIVE GroupLoop(_, _)
\* the while loop: two more digits and a comma in front, until none is left
GroupLoop(integer_part, formatted) ==
    IF Len(integer_part) > 0
    THEN GroupLoop(DropLast(integer_part, 2),
                   TakeLast(integer_part, 2) \o <<",">> \o formatted)
    ELSE formatted

\* mutation: the minus sign is never put back
indian_number_format_unsigned(a) ==
    LET rounded == RoundAbs(a)
        integer_part == NatToStr(rounded.whole)
        decimal_part == <<Digits[(rounded.cents \div 10) + 1],
                          Digits[(rounded.cents % 10) + 1]>>
        formatted == IF Len(integer_part) <= 3 THEN integer_part
                     ELSE GroupLoop(DropLast(integer_part, 3),
                                    TakeLast(integer_part, 3))
    IN  formatted \o <<".">> \o decimal_part

indian_number_format(a) ==
    LET rounded == RoundAbs(a)
        integer_part == NatToStr(rounded.whole)
        decimal_part == <<Digits[(rounded.cents \div 10) + 1],
                          Digits[(rounded.cents % 10) + 1]>>
        formatted == IF Len(integer_part) <= 3 THEN integer_part
                     ELSE GroupLoop(DropLast(integer_part, 3),
                                    TakeLast(integer_part, 3))
        result == formatted \o <<".">> \o decimal_part
    IN  IF is_negative(a) THEN <<"-">> \o result ELSE result

----------------------------------------------------------------------------
(* The block run when the form is submitted                                *)

\* the fixed deduction subtracted from the taxable amount, in rupees
StandardDeduction == 75000

\* max_value of the NPS field, percent
MaxNps == 14

\* a number of paise as the formatter's argument
AmountOfPaise(p) ==
    [neg |-> p < 0, whole |-> Abs(p) \div 100, num |-> Abs(p) % 100,
     den |-> 100]

\* mutation: the variable pay is taxed with the fixed salary
PipelineTaxesVariablePay(fixed_salary, nps) ==
    LET variable_pay == MulRate(fixed_salary, 14, 100)
        ctc_amount == fixed_salary + variable_pay
        basic_salary == MulRate(fixed_salary, 40, 100)
        employer_nps_contribution == MulRate(basic_salary, nps, 100)
        employer_pf_contribution == MulRate(basic_salary, 12, 100)
        employee_pf_contribution == MulRate(basic_salary, 12, 100)
        gratuity_contribution == MulRate(basic_salary, 48, 1000)
        professional_tax == Rupees(300 * 12)
        taxable_amount ==
            ctc_amount - employer_nps_contribution
                - employer_pf_contribution - gratuity_contribution
                - Rupees(StandardDeduction)
        tax_amount == calculate_tax(taxable_amount)
        cess_amount == MulRate(tax_amount, 4, 100)
        in_hand_salary ==
            fixed_salary - employer_nps_contribution
                - employer_pf_contribution - gratuity_contribution
                - employee_pf_contribution - professional_tax
                - tax_amount - cess_amount
    IN  [variable_pay |-> variable_pay,
         ctc_amount |-> ctc_amount,
         basic_salary |-> basic_salary,
         employer_nps_contribution |-> employer_nps_contribution,
         employer_pf_contribution |-> employer_pf_contribution,
         employee_pf_contribution |-> employee_pf_contribution,
         gratuity_contribution |-> gratuity_contribution,
         professional_tax |-> professional_tax,
         taxable_amount |-> taxable_amount,
         tax_amount |-> tax_amount,
         cess_amount |-> cess_amount,
         in_hand_salary |-> in_hand_salary]

\* the amounts computed from the two form fields (fixed salary in paise,
\* NPS contribution in percent)
Pipeline(fixed_salary, nps) ==
    LET variable_pay == MulRate(fixed_salary, 14, 100)
        ctc_amount == fixed_salary + variable_pay
        basic_salary == MulRate(fixed_salary, 40, 100)
        employer_nps_contribution == MulRate(basic_salary, nps, 100)
        employer_pf_contribution == MulRate(basic_salary, 12, 100)
        employee_pf_contribution == MulRate(basic_salary, 12, 100)
        gratuity_contribution == MulRate(basic_salary, 48, 1000)
        professional_tax == Rupees(300 * 12)
        taxable_amount ==
            fixed_salary - employer_nps_contribution
                - employer_pf_contribution - gratuity_contribution
                - Rupees(StandardDeduction)
        tax_amount == calculate_tax(taxable_amount)
        cess_amount == MulRate(tax_amount, 4, 100)
        in_hand_salary ==
            fixed_salary - employer_nps_contribution
                - employer_pf_contribution - gratuity_contribution
                - employee_pf_contribution - professional_tax
                - tax_amount - cess_amount
    IN  [variable_pay |-> variable_pay,
         ctc_amount |-> ctc_amount,
         basic_salary |-> basic_salary,
         employer_nps_contribution |-> employer_nps_contribution,
         employer_pf_contribution |-> employer_pf_contribution,
         employee_pf_contribution |-> employee_pf_contribution,
         gratuity_contribution |-> gratuity_contribution,
         professional_tax |-> professional_tax,
         taxable_amount |-> taxable_amount,
         tax_amount |-> tax_amount,
         cess_amount |-> cess_amount,
         in_hand_salary |-> in_hand_salary]

\* the yearly amounts of the two tables, formatted in the order shown (the
\* monthly column, each amount / 12, is not represented)
Render(fixed_salary, c) ==
    LET f(p) == indian_number_format(AmountOfPaise(p))
    IN  [calculations |->
            <<f(c.ctc_amount), f(c.variable_pay), f(c.basic_salary),
              f(c.employer_nps_contribution), f(c.employer_pf_contribution),
              f(c.employee_pf_contribution), f(c.gratuity_contribution),
              f(c.professional_tax)>>,
         in_hand |->
            <<f(c.ctc_amount), f(fixed_salary), f(c.taxable_amount),
              f(c.tax_amount), f(c.cess_amount),
              f(c.employer_nps_contribution + c.employer_pf_contribution
                    + c.employee_pf_contribution),
              f(c.in_hand_salary)>>]

\* salaries of 0, 12,500, 25,000, ... rupees are tried: on multiples of
\* 12,500 rupees every amount of the pipeline is a whole number of paise
MaxGrossSteps == 240

GrossInputs == {Rupees(12500 * k) : k \in 0..MaxGrossSteps}

NpsInputs == 0..MaxNps

Init ==
    /\ inp_fixed_salary \in GrossInputs
    /\ inp_nps \in NpsInputs
    /\ submit_button_clicked \in BOOLEAN
    /\ calc = << >>
    /\ shown = << >>
    /\ tax_args = << >>
    /\ tax_vals = << >>
    /\ amount = << >>
    /\ fmt_result = << >>

\* if(submit_button_clicked): compute every amount and render the tables
Submit ==
    /\ submit_button_clicked
    /\ calc = << >>
    /\ calc' = Pipeline(inp_fixed_salary, inp_nps)
    /\ shown' = Render(inp_fixed_salary, calc')
    /\ UNCHANGED <<inp_fixed_salary, inp_nps, submit_button_clicked,
                   tax_vars, fmt_vars>>

Next == Submit

Spec == Init /\ [][Next]_vars

\* the submit block has run
Computed == calc # << >>

\* every product taken by the pipeline is a whole number of paise
ExactArithmetic ==
    Computed =>
        /\ IsExact(inp_fixed_salary, 14, 100)
        /\ IsExact(inp_fixed_salary, 40, 100)
        /\ IsExact(calc.basic_salary, inp_nps, 100)
        /\ IsExact(calc.basic_salary, 12, 100)
        /\ IsExact(calc.basic_salary, 48, 1000)
        /\ calc.taxable_amount % Rupees(5) = 0
        /\ IsExact(calc.tax_amount, 4, 100)

\* C1 as stated: salary 1,800,000 at 14% gives basic 720,000, employer NPS
\* 100,800, both PF 86,400, gratuity 34,560, professional tax 3,600,
\* taxable 1,503,240, tax 45,486 and cess 1,819.44
C1_AsStated ==
    (Computed /\ inp_fixed_salary = Rupees(1800000) /\ inp_nps = 14) =>
        /\ calc.basic_salary = Rupees(720000)
        /\ calc.employer_nps_contribution = Rupees(100800)
        /\ calc.employer_pf_contribution = Rupees(86400)
        /\ calc.employee_pf_contribution = Rupees(86400)
        /\ calc.gratuity_contribution = Rupees(34560)
        /\ calc.professional_tax = Rupees(3600)
        /\ calc.taxable_amount = Rupees(1503240)
        /\ calc.tax_amount = calculate_tax(Rupees(1503240))
        /\ calc.tax_amount = Rupees(45486)
        /\ calc.cess_amount = 181944

\* C1 amended: the same example, with tax 105,486 (20,000 + 40,000 for the
\* two full slabs below 1,200,000, plus 45,486) and cess 4,219.44, net
\* salary 1,378,534.56
C1_EndToEnd ==
    (Computed /\ inp_fixed_salary = Rupees(1800000) /\ inp_nps = 14) =>
        /\ calc.basic_salary = Rupees(720000)
        /\ calc.employer_nps_contribution = Rupees(100800)
        /\ calc.employer_pf_contribution = Rupees(86400)
        /\ calc.employee_pf_contribution = Rupees(86400)
        /\ calc.gratuity_contribution = Rupees(34560)
        /\ calc.professional_tax = Rupees(3600)
        /\ calc.taxable_amount = Rupees(1503240)
        /\ calc.tax_amount = calculate_tax(Rupees(1503240))
        /\ calc.tax_amount = Rupees(105486)
        /\ calc.cess_amount = 421944
        /\ calc.in_hand_salary = 137853456
        /\ shown.in_hand[4] = <<"1", ",", "0", "5", ",", "4", "8", "6",
                                ".", "0", "0">>
        /\ shown.in_hand[5] = <<"4", ",", "2", "1", "9", ".", "4", "4">>

C1_Witness ==
    /\ Computed
    /\ inp_fixed_salary = Rupees(1800000)
    /\ inp_nps = 14
    /\ calc.taxable_amount = Rupees(1503240)

\* C9: taxable = gross - employer NPS - employer PF - gratuity - 75,000;
\* tax = calculate_tax(taxable); cess = 4% of tax; net plus every deduction
\* gives back the gross; both PF are 12% of basic, basic is 40% of gross,
\* professional tax is 3,600; variable pay (14% of gross) is part of ctc
\* only
C9_DeductionAccounting ==
    Computed =>
        /\ calc.taxable_amount =
              inp_fixed_salary - calc.employer_nps_contribution
                  - calc.employer_pf_contribution
                  - calc.gratuity_contribution - Rupees(75000)
        /\ calc.tax_amount = calculate_tax(calc.taxable_amount)
        /\ 100 * calc.cess_amount = 4 * calc.tax_amount
        /\ calc.in_hand_salary + calc.employer_nps_contribution
              + calc.employer_pf_contribution + calc.gratuity_contribution
              + calc.employee_pf_contribution + calc.professional_tax
              + calc.tax_amount + calc.cess_amount = inp_fixed_salary
        /\ 100 * calc.employer_pf_contribution = 12 * calc.basic_salary
        /\ calc.employee_pf_contribution = calc.employer_pf_contribution
        /\ 10 * calc.basic_salary = 4 * inp_fixed_salary
        /\ calc.professional_tax = Rupees(3600)
        /\ 50 * calc.variable_pay = 7 * inp_fixed_salary
        /\ calc.ctc_amount = inp_fixed_salary + calc.variable_pay

C9_Witness ==
    /\ Computed
    /\ calc.variable_pay > 0
    /\ calc.taxable_amount > brackets[1].limit
    /\ calc.in_hand_salary > 0

\* C10: at a fixed NPS percentage a higher gross salary always gives a
\* strictly higher net salary, and the extra tax is at most 30% of the
\* extra taxable amount
C10_NoTaxCliff ==
    Computed =>
        \A g2 \in GrossInputs :
            g2 > inp_fixed_salary =>
                LET c2 == Pipeline(g2, inp_nps)
                IN  /\ c2.in_hand_salary > calc.in_hand_salary
                    /\ c2.taxable_amount >= calc.taxable_amount
                    /\ 10 * (c2.tax_amount - calc.tax_amount)
                          <= 3 * (c2.taxable_amount - calc.taxable_amount)

C10_Witness ==
    /\ Computed
    /\ calc.taxable_amount < brackets[6].limit
    /\ calc.taxable_amount > 0
    /\ Pipeline(inp_fixed_salary + Rupees(12500), inp_nps).taxable_amount
          > brackets[6].limit

----------------------------------------------------------------------------
(* Callers of calculate_tax: two amounts are taxed one after the other     *)

\* rupee offsets tried around every bracket limit
MaxDelta == 2

\* points inside each slab: MaxMid steps of SlabStep rupees above its limit
SlabStep == 100000

MaxMid == 3

TaxAnchors == {0} \cup {brackets[i].limit : i \in 1..Len(brackets)}

TaxInputs ==
    {a + Rupees(d) : a \in TaxAnchors, d \in (-MaxDelta)..MaxDelta}
    \cup {a + Rupees(k * SlabStep) : a \in TaxAnchors, k \in 1..MaxMid}
    \cup {-Rupees(StandardDeduction)}

InitTax ==
    /\ tax_args \in TaxInputs \X TaxInputs
    /\ tax_vals = << >>
    /\ inp_fixed_salary = 0
    /\ inp_nps = 0
    /\ submit_button_clicked = FALSE
    /\ calc = << >>
    /\ shown = << >>
    /\ amount = << >>
    /\ fmt_result = << >>

\* the next pending amount is passed to calculate_tax
ApplyTax ==
    /\ Len(tax_vals) < Len(tax_args)
    /\ tax_vals' = Append(tax_vals, calculate_tax(tax_args[Len(tax_vals) + 1]))
    /\ UNCHANGED <<tax_args, pipe_vars, fmt_vars>>

NextTax == ApplyTax

SpecTax == InitTax /\ [][NextTax]_vars

\* both amounts have been taxed
TaxDone == Len(tax_vals) = 2

RECURSIVE SlabSum(_, _)
\* the textbook slab tax of x: over brackets i..6, rate times the part of x
\* lying between the bracket's limit and the next higher limit
SlabSum(i, x) ==
    IF i > Len(brackets) THEN 0
    ELSE LET upper == IF i = 1 THEN Max(x, brackets[1].limit)
                      ELSE brackets[i - 1].limit
             part  == Max(0, Min(x, upper) - brackets[i].limit)
         IN  MulRate(part, brackets[i].rate, 100) + SlabSum(i + 1, x)

\* C2: calculate_tax(x) equals the progressive slab tax of x, each rate
\* charged only on the part of x inside its own slab
C2_SlabReference ==
    \A k \in 1..Len(tax_vals) : tax_vals[k] = SlabSum(1, tax_args[k])

C2_Witness ==
    /\ TaxDone
    /\ tax_args[1] > brackets[1].limit
    /\ tax_args[2] > brackets[4].limit /\ tax_args[2] < brackets[3].limit
    /\ tax_vals[2] > 0

\* C3: calculate_tax(x) is 0 for every x <= 400,000, negative x included
C3_ZeroBelowFirstBracket ==
    \A k \in 1..Len(tax_vals) :
        tax_args[k] <= Rupees(400000) => tax_vals[k] = 0

C3_Witness ==
    /\ TaxDone
    /\ tax_args[1] < 0 /\ tax_vals[1] = 0
    /\ tax_args[2] = Rupees(400000) /\ tax_vals[2] = 0

\* C4: for 0 <= a <= b, calculate_tax(a) <= calculate_tax(b), and the tax
\* of a non-negative amount is non-negative
C4_Monotone ==
    TaxDone =>
        /\ (0 <= tax_args[1] /\ tax_args[1] <= tax_args[2])
              => tax_vals[1] <= tax_vals[2]
        /\ \A k \in 1..2 : tax_args[k] >= 0 => tax_vals[k] >= 0

C4_Witness ==
    /\ TaxDone
    /\ tax_args[1] = Rupees(800000)
    /\ tax_args[2] = Rupees(800001)
    /\ tax_vals[1] < tax_vals[2]

RECURSIVE FullSlabsBelow(_)
\* the tax of the complete slabs below bracket i
FullSlabsBelow(i) ==
    IF i >= Len(brackets) THEN 0
    ELSE MulRate(brackets[i].limit - brackets[i + 1].limit,
                 brackets[i + 1].rate, 100) + FullSlabsBelow(i + 1)

----------------------------------------------------------------------------
(* Callers of indian_number_format                                         *)

\* integer parts of up to MaxDigits digits are tried
MaxDigits == 8

\* fractions are multiples of 1 / 2^FracBits
FracBits == 8

FracDen == 2 ^ FracBits

\* 1, 12, 123, ... : the first d digits of 123456789
RECURSIVE Counting(_)
Counting(d) == IF d = 0 THEN 0 ELSE Counting(d - 1) * 10 + d

FmtWholes ==
    {0} \cup {10 ^ (d - 1) : d \in 1..MaxDigits}
        \cup {10 ^ d - 1 : d \in 1..MaxDigits}
        \cup {Counting(d) : d \in 1..MaxDigits}

\* the amounts named in the documentation of the formatter
FmtExamples ==
    {[neg |-> n, whole |-> 1234567, num |-> 89, den |-> 100] : n \in BOOLEAN}
    \cup {[neg |-> n, whole |-> 123456789, num |-> 0, den |-> 100] : n \in BOOLEAN}

FmtInputs ==
    [neg : BOOLEAN, whole : FmtWholes, num : 0..(FracDen - 1), den : {FracDen}]
    \cup FmtExamples

InitFmt ==
    /\ amount \in FmtInputs
    /\ fmt_result = << >>
    /\ inp_fixed_salary = 0
    /\ inp_nps = 0
    /\ submit_button_clicked = FALSE
    /\ calc = << >>
    /\ shown = << >>
    /\ tax_args = << >>
    /\ tax_vals = << >>

\* the amount is formatted
Format ==
    /\ fmt_result = << >>
    /\ fmt_result' = indian_number_format(amount)
    /\ UNCHANGED <<amount, pipe_vars, tax_vars>>

NextFmt == Format

SpecFmt == InitFmt /\ [][NextFmt]_vars

FmtDone == fmt_result # << >>

\* the amount is zero, of either sign
IsZero(a) == a.whole = 0 /\ a.num = 0

\* the same amount with the other sign
Negate(a) == [a EXCEPT !.neg = ~a.neg]

\* the text s without its commas
RECURSIVE StripCommas(_)
StripCommas(s) ==
    IF s = << >> THEN << >>
    ELSE IF Head(s) = "," THEN StripCommas(Tail(s))
    ELSE <<Head(s)>> \o StripCommas(Tail(s))

\* the value of one digit character
DigitValue(ch) == CHOOSE v \in 0..9 : Digits[v + 1] = ch

\* the number a string of digits denotes
RECURSIVE StrToNat(_)
StrToNat(s) ==
    IF s = << >> THEN 0
    ELSE StrToNat(DropLast(s, 1)) * 10 + DigitValue(s[Len(s)])

\* C5: for x > 0 the text of -x is "-" followed by the text of x, and the
\* text of 0 is "0.00"
C5_SignLaw ==
    FmtDone =>
        /\ (amount.neg /\ ~IsZero(amount))
              => fmt_result = <<"-">> \o indian_number_format(Negate(amount))
        /\ (~amount.neg /\ ~IsZero(amount)) => fmt_result[1] \in DigitSet
        /\ IsZero(amount) => fmt_result = <<"0", ".", "0", "0">>

C5_Witness ==
    /\ FmtDone
    /\ amount = [neg |-> TRUE, whole |-> 1234567, num |-> 89, den |-> 100]
    /\ fmt_result = <<"-", "1", "2", ",", "3", "4", ",", "5", "6", "7",
                      ".", "8", "9">>

\* every character of s after the first is "0", "." or ","
AllZero(s) == \A i \in 1..Len(s) : s[i] \in {"0", ".", ","}

\* C6: the formatter never returns a minus sign in front of zero
C6_ZeroNeverSigned ==
    FmtDone => ~(fmt_result[1] = "-" /\ AllZero(Tail(fmt_result)))

\* the distance from 100 * amount to the rupees v and hundredths c shown,
\* in units of 1/den of a hundredth
CentError(a, v, c) == Abs((v - a.whole) * 100 * a.den + c * a.den - 100 * a.num)

\* C7: for a non-negative amount the text is the grouped integer digits of
\* the amount rounded to the nearest hundredth, ".", and 2 digits; counted
\* from the right of the integer part, commas stand exactly at places 4, 7,
\* 10, ... and never first, so the last group has 3 digits, the others 2
\* and the first 1 or 2; removing the commas gives back the digit string
C7_Grouping ==
    (FmtDone /\ ~is_negative(amount)) =>
        LET s  == fmt_result
            n  == Len(s)
            ip == SubSeq(s, 1, n - 3)
            m  == Len(ip)
            d  == StripCommas(ip)
            v  == StrToNat(d)
            c  == StrToNat(SubSeq(s, n - 1, n))
        IN  /\ n >= 4
            /\ s[n - 2] = "."
            /\ s[n - 1] \in DigitSet /\ s[n] \in DigitSet
            /\ \A j \in 1..m :
                  IF j >= 4 /\ j % 3 = 1 /\ j < m
                  THEN ip[m - j + 1] = ","
                  ELSE ip[m - j + 1] \in DigitSet
            /\ (Len(d) <= 3) = (m = Len(d))
            /\ Len(d) > 1 => d[1] # "0"
            /\ d = NatToStr(v)
            /\ 2 * CentError(amount, v, c) <= amount.den

C7_Witness ==
    /\ FmtDone
    /\ amount = [neg |-> FALSE, whole |-> 123456789, num |-> 0, den |-> 100]
    /\ fmt_result = <<"1", "2", ",", "3", "4", ",", "5", "6", ",",
                      "7", "8", "9", ".", "0", "0">>

====
